---- MODULE Spec2Model ----
(***************************************************************************)
(* Model of src/gitWorkflow.js: the patch-based stash / restore engine     *)
(* (gitStashSave, gitStashPop, gitApplyPatch, gitPopWithConflicts,         *)
(* cleanup, generatePatch, hasUnstagedFiles).                              *)
(*                                                                         *)
(* The repository is modelled at content level.  A unit is a region of a   *)
(* tracked file far enough from the other regions that a patch hunk for    *)
(* one of them does not use the other as context.  HEAD, the index and the *)
(* working tree map every unit to a blob name.  One more path is a         *)
(* submodule, of which only "differs from the index or not" matters:       *)
(* `diff-index --name-only` reports it, `diff-index --ignore-submodules`   *)
(* and `git stash` do not, and no command of the engine changes it.        *)
(* Stat information, untracked files and file modes are not modelled.      *)
(*                                                                         *)
(* Every awaited subprocess or file-system call is one step.  A step may   *)
(* fail because of the state (a patch that does not apply, stash@{1} that  *)
(* does not exist, ...) or because of the environment (a fault, drawn      *)
(* nondeterministically while the fault budget lasts).                     *)
(*                                                                         *)
(* Four specifications share the state:                                    *)
(*   Spec        one caller of gitStashSave / gitStashPop and its hook;    *)
(*   SpecLedger  the tree ledger: gitStash, updateStash, gitPop;           *)
(*   SpecRun     the commands of one operation as subprocesses that are    *)
(*               started and end;                                          *)
(*   SpecTwo     two callers whose save / restore cycles interleave.       *)
(***************************************************************************)
EXTENDS Naturals, Sequences, FiniteSets

\* ---------------------------------------------------------------- bounds
\* engine calls (gitStashSave / gitStashPop) in one behaviour
MaxCalls == 2
\* environment faults (a command or file operation failing for a reason
\* outside the modelled state) in one behaviour
MaxFaults == 1
\* ledger operations (gitStash / updateStash / gitPop) in one behaviour
MaxLedgerCalls == 5

\* ------------------------------------------------------------- the universe
Units == {"f1", "f2"}
Files == {"f"}
FileOf(u) == "f"
Blobs == {"b0", "b1", "b2"}
\* content of a unit that a failed three-way merge left with conflict
\* markers (working tree) or unmerged (index)
Conflict == "conflict"
\* the path of the submodule in the output of diff-index --name-only
SubPath == "sub"

HEAD == [u \in Units |-> "b0"]
NoTree == [u \in Units |-> "none"]

Unmerged(idx) == \E u \in Units : idx[u] = Conflict

\* ------------------------------------------------------------- patches
\* a patch file holds one hunk <<old, new>> per unit; old = new is "no hunk"
NoHunks == [u \in Units |-> <<"-", "-">>]
NoFile == [kind |-> "nofile", hunks |-> NoHunks]
\* what is written when the rejected command had nothing on stdout
EmptyPatch == [kind |-> "empty", hunks |-> NoHunks]
\* (mutation of DiffPatch: the tree is compared with itself)
AsDiffNothing(t, w) == [kind |-> "diff", hunks |-> NoHunks]
\* stdout of diff-index --binary <tree>: the unit hunks; submodules ignored
DiffPatch(t, w) ==
    [kind |-> "diff",
     hunks |-> [u \in Units |-> IF t[u] = w[u] THEN <<"-", "-">> ELSE <<t[u], w[u]>>]]
HunkUnits(p) == {u \in Units : p.hunks[u][1] # p.hunks[u][2]}

\* ------------------------------------------------------------- state
VARIABLES
    index,      \* the git index: Units -> blob
    wt,         \* the working tree: Units -> blob
    subDirty,   \* the submodule differs from what the index records
    stash,      \* the stash list, stash@{0} first; by = who pushed the entry
    patchFile,  \* content of <cwd>/.lint-staged.patch, or NoFile
    patchPath,  \* the module variable: "undefined", "null" or "path"
    pc,         \* position of the running operation, "idle" when none runs
    tree,       \* stdout of the last write-tree of the running operation
    patch,      \* the bytes generatePatch's catch handler is about to write
    \* history of the run, read only by the properties
    op,         \* the operation called last: "none", "save", "pop"
    outcome,    \* "none", "running", "resolved", "rejected", "threw"
    failed,     \* <<step, cause>> of the commands that failed in op
    cmds,       \* number of git commands op has run
    recovery,   \* op entered gitPopWithConflicts
    cleaned,    \* op completed cleanup
    hooked,     \* the hook ran since gitStashSave was last called
    sv,         \* the repository when gitStashSave was last called
    pv,         \* the repository and the previous call when gitStashPop was last called
    calls,      \* engine calls made so far
    faults,     \* environment faults injected so far
    \* the tree ledger (lines 10-12)
    trees,      \* the module variable trees: a sequence of tree names
    workTree,   \* the module variable workTree: a tree name, NoTree for null
    lg,         \* history of the ledger operations, read only by the properties
    \* the commands of one operation as subprocesses
    run,        \* the operation, the command issued last, the commands in flight
    \* two callers sharing the module
    cyc         \* per cycle: how far it is and what its calls saw

repo == <<index, wt, subDirty, stash>>
prog == <<patchFile, patchPath, pc, tree, patch>>
hist == <<op, outcome, failed, cmds, recovery, cleaned, hooked, sv, pv>>
budget == <<calls, faults>>
ledger == <<trees, workTree, lg>>
ext == <<ledger, run, cyc>>
vars == <<repo, prog, hist, budget, ext>>

\* ------------------------------------------------------------- git commands
\* git diff-index --name-only <tree> -- : the paths that differ (line 37)
NameOnlyDiff(t, w, sub) ==
    {u \in Units : t[u] # w[u]} \cup (IF sub THEN {SubPath} ELSE {})

\* (mutation of HasUnstaged: files.length >= 0)
AsAlwaysUnstaged(files) == TRUE
\* files => files.length > 0 (line 45)
HasUnstaged(files) == files # {}

\* git stash has nothing to save: index = HEAD and working tree = index,
\* submodules ignored
NoLocalChanges(idx, w) == idx = HEAD /\ w = idx

StashEntry(idx, w, who) == [base |-> HEAD, i |-> idx, w |-> w, by |-> who]

\* git stash --keep-index (line 174): the stash list afterwards
StashKeepIndexList(st, idx, w) ==
    IF NoLocalChanges(idx, w) THEN st ELSE <<StashEntry(idx, w, "save")>> \o st
\* ... and the working tree afterwards: reset --hard, then the index tree
\* is read back and checked out
StashKeepIndexWt(idx, w) == IF NoLocalChanges(idx, w) THEN w ELSE idx

\* git stash (line 87): list, index and working tree afterwards
StashList(st, idx, w) ==
    IF NoLocalChanges(idx, w) THEN st ELSE <<StashEntry(idx, w, "fix")>> \o st
\* (reset --hard after the push)
StashIndex(idx, w) == IF NoLocalChanges(idx, w) THEN idx ELSE HEAD
StashWt(idx, w) == IF NoLocalChanges(idx, w) THEN w ELSE HEAD

\* (mutation of CheckoutAll: git checkout HEAD -- .)
AsCheckoutHead(idx, w) == HEAD
\* git checkout -- . (line 158): every tracked path is checked out of the index
CheckoutAll(idx, w) == idx

\* git apply --whitespace=nowarn <patch> (line 83): all hunks or none
Applies(p, w) ==
    /\ p.kind = "diff"
    /\ HunkUnits(p) # {}
    /\ \A u \in HunkUnits(p) : w[u] = p.hunks[u][1]
ApplyPatch(p, w) ==
    [u \in Units |-> IF u \in HunkUnits(p) THEN p.hunks[u][2] ELSE w[u]]

\* the three-way merge of git stash pop (merge-recursive base -- ours theirs)
Merge3(b, c, t) ==
    [u \in Units |->
        IF b[u] = c[u] THEN t[u]
        ELSE IF b[u] = t[u] \/ c[u] = t[u] THEN c[u]
        ELSE Conflict]
\* merge-recursive refuses to overwrite a path with local changes
Overwrites(m, idx, w) == \E u \in Units : m[u] # idx[u] /\ w[u] # idx[u]

\* the list without stash@{n}, n counted from 1
DropAt(st, n) == SubSeq(st, 1, n - 1) \o SubSeq(st, n + 1, Len(st))

\* ------------------------------------------------------------- initial state
\* stash lists the user may have before the engine is first called
UserStashes ==
    { <<>>,
      <<[base |-> HEAD, i |-> HEAD, w |-> [u \in Units |-> "b1"], by |-> "user"]>>,
      <<[base |-> [u \in Units |-> "b1"], i |-> [u \in Units |-> "b1"],
         w |-> [u \in Units |-> "b2"], by |-> "user"]>> }

NoSnap == [valid |-> FALSE, index |-> NoTree, wt |-> NoTree, sub |-> FALSE,
           stash |-> <<>>, patchFile |-> NoFile]
\* the ledger history before any ledger operation
NoLedger == [index |-> NoTree, wt |-> NoTree, trees |-> <<>>, workTree |-> NoTree,
             read |-> NoTree, begun |-> FALSE, t0 |-> NoTree, edited |-> FALSE]
\* no operation is running
NoRun == [op |-> "none", at |-> "none", res |-> "none", fly |-> {}, log |-> <<>>]
\* two callers, each going through one cycle of gitStashSave and gitStashPop
Cycles == {"A", "B"}
NoCycles == [who |-> "none",
             st |-> [c \in Cycles |-> "new"],
             kept |-> [c \in Cycles |-> NoFile],
             applied |-> [c \in Cycles |-> NoFile],
             prev |-> [kind |-> "none", by |-> "none", cleaned |-> FALSE]]
NoCall == [valid |-> FALSE, index |-> NoTree, wt |-> NoTree, stash |-> <<>>,
           patchFile |-> NoFile, patchPath |-> "undefined",
           prevOp |-> "none", prevOutcome |-> "none", prevFailed |-> {},
           hooked |-> FALSE]

\* The units are interchangeable (nothing below names one), so of two initial
\* states that differ by swapping them only one is kept.
Rank(idx, w, u) == (IF idx[u] = "b0" THEN 0 ELSE 3)
                   + (IF w[u] = "b0" THEN 0 ELSE IF w[u] = "b1" THEN 1 ELSE 2)

Init ==
    /\ index \in [Units -> {"b0", "b1"}]
    /\ wt \in [Units -> Blobs]
    /\ Rank(index, wt, "f1") <= Rank(index, wt, "f2")
    /\ subDirty \in BOOLEAN
    /\ stash \in UserStashes
    /\ patchFile = NoFile
    /\ patchPath = "undefined"
    /\ pc = "idle"
    /\ tree = NoTree
    /\ patch = NoFile
    /\ op = "none" /\ outcome = "none" /\ failed = {} /\ cmds = 0
    /\ recovery = FALSE /\ cleaned = FALSE /\ hooked = FALSE
    /\ sv = NoSnap /\ pv = NoCall
    /\ calls = 0 /\ faults = 0
    /\ trees = <<>> /\ workTree = NoTree /\ lg = NoLedger
    /\ run = NoRun
    /\ cyc = NoCycles

\* ------------------------------------------------------------- step helpers
\* the running operation settles
Settle(how) == pc' = "idle" /\ outcome' = how


\* one awaited call at step s: ok is the environment's verdict, good whether
\* the call succeeds in this state.  Counts the fault and records a failure.
Did(s, ok, good, isGit) ==
    /\ ok \/ faults < MaxFaults
    /\ faults' = IF ok THEN faults ELSE faults + 1
    /\ cmds' = IF isGit THEN cmds + 1 ELSE cmds
    /\ failed' = IF good THEN failed
                 ELSE failed \cup {<<s, IF ok THEN "state" ELSE "env">>}
    /\ UNCHANGED <<calls, op, hooked, sv, pv, run, cyc>>
\* ... in gitStashSave and gitStashPop, which do not touch the ledger
Ran(s, ok, good, isGit) == Did(s, ok, good, isGit) /\ UNCHANGED ledger

\* ------------------------------------------------------------- gitStashSave
\* the caller invokes gitStashSave (line 168)
EnterSave ==
    /\ calls' = calls + 1
    /\ pc' = "s_tree1"
    /\ op' = "save" /\ outcome' = "running" /\ failed' = {} /\ cmds' = 0
    /\ recovery' = FALSE /\ cleaned' = FALSE /\ hooked' = FALSE
    /\ sv' = [valid |-> TRUE, index |-> index, wt |-> wt, sub |-> subDirty,
              stash |-> stash, patchFile |-> patchFile]
    /\ pv' = NoCall
    /\ UNCHANGED <<repo, patchFile, patchPath, tree, patch, faults, ledger, run>>
\* ... by the one caller of a behaviour of Spec
CallSave ==
    /\ pc = "idle" /\ calls < MaxCalls
    /\ EnterSave
    /\ UNCHANGED cyc

\* getUnstagedFiles: git write-tree (line 33)
SaveWriteTree ==
    /\ pc = "s_tree1"
    /\ \E ok \in BOOLEAN :
        LET good == ok /\ ~Unmerged(index) IN
        /\ Ran("s_tree1", ok, good, TRUE)
        /\ IF good
           THEN tree' = index /\ pc' = "s_names" /\ UNCHANGED outcome
           ELSE Settle("rejected") /\ UNCHANGED tree
    /\ UNCHANGED <<repo, patchFile, patchPath, patch, recovery, cleaned>>

\* getUnstagedFiles: git diff-index --name-only <tree> (lines 36-41; write-tree
\* always prints a tree name, so the `return []` of line 39 is not reached),
\* hasUnstagedFiles (line 45) and the branch of gitStashSave (lines 170-176)
SaveNameOnly ==
    /\ pc = "s_names"
    /\ \E ok \in BOOLEAN :
        /\ Ran("s_names", ok, ok, TRUE)
        /\ IF ok
           THEN IF HasUnstaged(NameOnlyDiff(tree, wt, subDirty))
                THEN pc' = "s_tree2" /\ UNCHANGED outcome
                ELSE Settle("resolved")
           ELSE Settle("rejected")
    /\ UNCHANGED <<repo, patchFile, patchPath, tree, patch, recovery, cleaned>>

\* generatePatch: git write-tree (line 50); a rejection falls into the catch
\* handler of line 73, which takes the error's stdout as the patch
GenWriteTree ==
    /\ pc = "s_tree2"
    /\ \E ok \in BOOLEAN :
        LET good == ok /\ ~Unmerged(index) IN
        /\ Ran("s_tree2", ok, good, TRUE)
        /\ IF good
           THEN tree' = index /\ pc' = "s_diff" /\ UNCHANGED patch
           ELSE patch' = EmptyPatch /\ pc' = "s_write" /\ UNCHANGED tree
    /\ UNCHANGED <<repo, patchFile, patchPath, outcome, recovery, cleaned>>

\* generatePatch: git diff-index --exit-code --ignore-submodules --binary ...
\* (lines 54-66).  Exit 0: the then handler of line 70 resolves undefined,
\* which gitStashSave assigns to patchPath (line 173).  Any rejection, the
\* exit 1 of a non-empty diff or a real failure, falls into the catch handler.
GenDiff ==
    /\ pc = "s_diff"
    /\ \E ok \in BOOLEAN :
        LET p == DiffPatch(tree, wt) IN
        /\ Ran("s_diff", ok, ok, TRUE)
        /\ IF ~ok
           THEN patch' = EmptyPatch /\ pc' = "s_write" /\ UNCHANGED patchPath
           ELSE IF HunkUnits(p) = {}
                THEN patchPath' = "undefined" /\ pc' = "s_stash" /\ UNCHANGED patch
                ELSE patch' = p /\ pc' = "s_write" /\ UNCHANGED patchPath
    /\ UNCHANGED <<repo, patchFile, tree, outcome, recovery, cleaned>>

\* (mutation of WriteFile: a file that exists is left as it is)
AsKeepExisting(old, new) == IF old = NoFile THEN new ELSE old
\* fsp.writeFile (line 78) replaces the file if it exists
WriteFile(old, new) == new

\* generatePatch: fsp.writeFile(filePath, patch).then(() => filePath)
\* (lines 75-78) and patchPath = await generatePatch (line 173)
GenWriteFile ==
    /\ pc = "s_write"
    /\ \E ok \in BOOLEAN :
        /\ Ran("s_write", ok, ok, FALSE)
        /\ IF ok
           THEN /\ patchFile' = WriteFile(patchFile, patch) /\ patchPath' = "path"
                /\ pc' = "s_stash" /\ UNCHANGED outcome
           ELSE Settle("rejected") /\ UNCHANGED <<patchFile, patchPath>>
    /\ UNCHANGED <<repo, tree, patch, recovery, cleaned>>

\* gitStashSave: return execGit(['stash', '--keep-index']) (line 174)
SaveStash ==
    /\ pc = "s_stash"
    /\ \E ok \in BOOLEAN :
        LET good == ok /\ ~Unmerged(index) IN
        /\ Ran("s_stash", ok, good, TRUE)
        /\ IF good
           THEN /\ stash' = StashKeepIndexList(stash, index, wt)
                /\ wt' = StashKeepIndexWt(index, wt)
                /\ Settle("resolved")
           ELSE Settle("rejected") /\ UNCHANGED <<stash, wt>>
    /\ UNCHANGED <<index, subDirty, patchFile, patchPath, tree, patch, recovery, cleaned>>

\* ------------------------------------------------------------- gitStashPop
\* if (!patchPath) (line 181): undefined and null are falsy
NoPatch(pp) == pp # "path"

\* the caller invokes gitStashPop (lines 179-185)
EnterPop ==
    /\ calls' = calls + 1
    /\ op' = "pop" /\ failed' = {} /\ cmds' = 0
    /\ recovery' = FALSE /\ cleaned' = FALSE
    /\ pv' = [valid |-> TRUE, index |-> index, wt |-> wt, stash |-> stash,
              patchFile |-> patchFile, patchPath |-> patchPath,
              prevOp |-> op, prevOutcome |-> outcome, prevFailed |-> failed,
              hooked |-> hooked]
    /\ IF NoPatch(patchPath)
       THEN pc' = "idle" /\ outcome' = "threw"
       ELSE pc' = "p_checkout" /\ outcome' = "running"
    /\ UNCHANGED <<repo, patchFile, patchPath, tree, patch, hooked, sv, faults,
                   ledger, run>>
\* ... by the one caller of a behaviour of Spec
CallPop ==
    /\ pc = "idle" /\ calls < MaxCalls
    /\ EnterPop
    /\ UNCHANGED cyc

\* gitApplyPatch: git checkout -- . inside the try block (line 158)
PopCheckout ==
    /\ pc = "p_checkout"
    /\ \E ok \in BOOLEAN :
        LET good == ok /\ ~Unmerged(index) IN
        /\ Ran("p_checkout", ok, good, TRUE)
        /\ IF good
           THEN wt' = CheckoutAll(index, wt) /\ pc' = "p_apply" /\ UNCHANGED recovery
           ELSE pc' = "r_stash" /\ recovery' = TRUE /\ UNCHANGED wt
    /\ UNCHANGED <<index, subDirty, stash, patchFile, patchPath, tree, patch,
                   outcome, cleaned>>

\* gitApplyPatch: gitApply(patch) inside the try block (lines 159, 83)
PopApply ==
    /\ pc = "p_apply"
    /\ \E ok \in BOOLEAN :
        LET good == ok /\ Applies(patchFile, wt) IN
        /\ Ran("p_apply", ok, good, TRUE)
        /\ IF good
           THEN wt' = ApplyPatch(patchFile, wt) /\ pc' = "c_drop" /\ UNCHANGED recovery
           ELSE pc' = "r_stash" /\ recovery' = TRUE /\ UNCHANGED wt
    /\ UNCHANGED <<index, subDirty, stash, patchFile, patchPath, tree, patch,
                   outcome, cleaned>>

\* gitPopWithConflicts: git stash (line 87)
RecStash ==
    /\ pc = "r_stash"
    /\ \E ok \in BOOLEAN :
        LET good == ok /\ ~Unmerged(index) IN
        /\ Ran("r_stash", ok, good, TRUE)
        /\ IF good
           THEN /\ stash' = StashList(stash, index, wt)
                /\ index' = StashIndex(index, wt)
                /\ wt' = StashWt(index, wt)
                /\ pc' = "r_pop" /\ UNCHANGED outcome
           ELSE Settle("rejected") /\ UNCHANGED <<stash, index, wt>>
    /\ UNCHANGED <<subDirty, patchFile, patchPath, tree, patch, recovery, cleaned>>

\* gitPopWithConflicts: git stash pop stash@{1} (line 88)
RecPop ==
    /\ pc = "r_pop"
    /\ \E ok \in BOOLEAN :
        LET able == ok /\ Len(stash) >= 2 /\ ~Unmerged(index)
            e == stash[2]
            m == Merge3(e.base, index, e.w)
            good == able /\ ~Overwrites(m, index, wt) /\ ~Unmerged(m)
        IN
        /\ Ran("r_pop", ok, good, TRUE)
        /\ IF good
           THEN /\ wt' = [u \in Units |-> IF m[u] # index[u] THEN m[u] ELSE wt[u]]
                /\ stash' = DropAt(stash, 2)
                /\ pc' = "r_read" /\ UNCHANGED <<index, outcome>>
           ELSE /\ Settle("rejected")
                /\ IF able /\ ~Overwrites(m, index, wt)
                   THEN \* the merge conflicted: markers, and the entry is kept
                        /\ wt' = [u \in Units |-> IF m[u] # index[u] THEN m[u] ELSE wt[u]]
                        /\ index' = m
                   ELSE UNCHANGED <<index, wt>>
                /\ UNCHANGED stash
    /\ UNCHANGED <<subDirty, patchFile, patchPath, tree, patch, recovery, cleaned>>

\* gitPopWithConflicts: git read-tree -m -i stash (line 89)
RecReadTree ==
    /\ pc = "r_read"
    /\ \E ok \in BOOLEAN :
        LET good == ok /\ stash # <<>> /\ ~Unmerged(index) IN
        /\ Ran("r_read", ok, good, TRUE)
        /\ IF good
           THEN index' = stash[1].w /\ pc' = "c_drop" /\ UNCHANGED outcome
           ELSE Settle("rejected") /\ UNCHANGED index
    /\ UNCHANGED <<wt, subDirty, stash, patchFile, patchPath, tree, patch,
                   recovery, cleaned>>

\* cleanup: git stash drop (line 149)
CleanDrop ==
    /\ pc = "c_drop"
    /\ \E ok \in BOOLEAN :
        LET good == ok /\ stash # <<>> IN
        /\ Ran("c_drop", ok, good, TRUE)
        /\ IF good
           THEN stash' = Tail(stash) /\ pc' = "c_unlink" /\ UNCHANGED outcome
           ELSE Settle("rejected") /\ UNCHANGED stash
    /\ UNCHANGED <<index, wt, subDirty, patchFile, patchPath, tree, patch,
                   recovery, cleaned>>

\* cleanup: fsp.unlink(patchPath); patchPath = null (lines 150-152)
CleanUnlink ==
    /\ pc = "c_unlink"
    /\ \E ok \in BOOLEAN :
        LET good == ok /\ patchFile # NoFile IN
        /\ Ran("c_unlink", ok, good, FALSE)
        /\ IF good
           THEN /\ patchFile' = NoFile /\ patchPath' = "null"
                /\ cleaned' = TRUE /\ Settle("resolved")
           ELSE Settle("rejected") /\ UNCHANGED <<patchFile, patchPath, cleaned>>
    /\ UNCHANGED <<repo, tree, patch, recovery>>

\* ------------------------------------------------------------- the hook
\* once gitStashSave has resolved the caller runs the hook, once: it rewrites
\* a unit of the working tree and, when add, runs `git add` on the file
HookFix ==
    /\ pc = "idle" /\ op = "save" /\ outcome = "resolved" /\ ~hooked
    /\ \E u \in Units, b \in Blobs, add \in BOOLEAN :
        /\ b # wt[u]
        /\ wt' = [wt EXCEPT ![u] = b]
        /\ index' = IF add
                    THEN [v \in Units |-> IF FileOf(v) = FileOf(u) THEN wt'[v] ELSE index[v]]
                    ELSE index
    /\ hooked' = TRUE
    /\ UNCHANGED <<subDirty, stash, prog, op, outcome, failed, cmds,
                   recovery, cleaned, sv, pv, calls, faults, ext>>

Next ==
    \/ CallSave \/ SaveWriteTree \/ SaveNameOnly
    \/ GenWriteTree \/ GenDiff \/ GenWriteFile \/ SaveStash
    \/ CallPop \/ PopCheckout \/ PopApply
    \/ RecStash \/ RecPop \/ RecReadTree
    \/ CleanDrop \/ CleanUnlink
    \/ HookFix

Spec == Init /\ [][Next]_vars


\* ------------------------------------------------------------- tree ledger
\* git add . (line 103): every tracked path is staged as the working tree has it
AddAll(idx, w) == w
\* git read-tree <tree> (lines 107, 127, 131, 136): the index becomes the tree
ReadTree(t) == t
\* (mutation of CheckoutIndexAll: checkout-index without -a)
AsCheckoutNothing(idx, w) == w
\* git checkout-index -af (lines 109, 129): every path of the index is written
\* to the working tree, overwriting what is there
CheckoutIndexAll(idx, w) == idx
\* git checkout-index with neither -a nor a path (line 139) writes no file
CheckoutIndexNone(idx, w) == w
\* (mutation of Extend: the new tree is put first)
AsPrepend(ts, t) == <<t>> \o ts
\* [...trees, tree] (line 118)
Extend(ts, t) == Append(ts, t)
\* (mutation of NeedTrees: both must be missing)
AsNeedBoth(w, ts) == w = NoTree /\ Len(ts) = 0
\* !workTree || !trees.length (line 123)
NeedTrees(w, ts) == w = NoTree \/ Len(ts) = 0
\* (mutation of LedgerPick: always trees[0])
AsPickFirst(ts) == ts[1]
\* trees[0] when trees.length === 1, trees[1] otherwise (lines 130-137);
\* sequences are counted from 1 here
LedgerPick(ts) == IF Len(ts) = 1 THEN ts[1] ELSE ts[2]

\* the ledger operation name is entered; its first step is first
LedgerEnter(name, first) ==
    /\ calls' = calls + 1
    /\ pc' = first
    /\ op' = name /\ outcome' = "running" /\ failed' = {} /\ cmds' = 0
    /\ lg' = [lg EXCEPT !.index = index, !.wt = wt, !.trees = trees,
                        !.workTree = workTree, !.read = NoTree,
                        !.edited = IF name = "begin" THEN FALSE ELSE @]
    /\ UNCHANGED <<repo, patchFile, patchPath, tree, patch, recovery, cleaned,
                   hooked, sv, pv, faults, trees, workTree, run, cyc>>

\* what a ledger step leaves alone whatever it does
LedgerFrame == UNCHANGED <<subDirty, stash, patchFile, patchPath, patch,
                           recovery, cleaned>>

\* the caller invokes gitStash (line 98)
CallGitStash ==
    /\ pc = "idle" /\ calls < MaxLedgerCalls
    /\ LedgerEnter("begin", "g_tree1")

\* gitStash: trees = [await writeTree()] (line 101)
StashWriteTree ==
    /\ pc = "g_tree1"
    /\ \E ok \in BOOLEAN :
        LET good == ok /\ ~Unmerged(index) IN
        /\ Did("g_tree1", ok, good, TRUE)
        /\ IF good
           THEN /\ tree' = index /\ trees' = <<tree'>>
                /\ lg' = [lg EXCEPT !.begun = TRUE, !.t0 = lg.index]
                /\ pc' = "g_add" /\ UNCHANGED outcome
           ELSE Settle("rejected") /\ UNCHANGED <<tree, trees, lg>>
    /\ LedgerFrame /\ UNCHANGED <<index, wt, workTree>>

\* gitStash: git add . (line 103)
StashAdd ==
    /\ pc = "g_add"
    /\ \E ok \in BOOLEAN :
        /\ Did("g_add", ok, ok, TRUE)
        /\ IF ok
           THEN index' = AddAll(index, wt) /\ pc' = "g_tree2" /\ UNCHANGED outcome
           ELSE Settle("rejected") /\ UNCHANGED index
    /\ LedgerFrame /\ UNCHANGED <<wt, tree, ledger>>

\* gitStash: workTree = await writeTree() (line 105)
StashWorkTree ==
    /\ pc = "g_tree2"
    /\ \E ok \in BOOLEAN :
        LET good == ok /\ ~Unmerged(index) IN
        /\ Did("g_tree2", ok, good, TRUE)
        /\ IF good
           THEN /\ tree' = index /\ workTree' = tree'
                /\ pc' = "g_read" /\ UNCHANGED outcome
           ELSE Settle("rejected") /\ UNCHANGED <<tree, workTree>>
    /\ LedgerFrame /\ UNCHANGED <<index, wt, trees, lg>>

\* gitStash: git read-tree trees[0] (line 107)
StashReadTree ==
    /\ pc = "g_read"
    /\ \E ok \in BOOLEAN :
        /\ Did("g_read", ok, ok, TRUE)
        /\ IF ok
           THEN index' = ReadTree(trees[1]) /\ pc' = "g_checkout" /\ UNCHANGED outcome
           ELSE Settle("rejected") /\ UNCHANGED index
    /\ LedgerFrame /\ UNCHANGED <<wt, tree, ledger>>

\* gitStash: git checkout-index -af (line 109), then resolves null (line 112)
StashCheckoutIndex ==
    /\ pc = "g_checkout"
    /\ \E ok \in BOOLEAN :
        /\ Did("g_checkout", ok, ok, TRUE)
        /\ IF ok
           THEN wt' = CheckoutIndexAll(index, wt) /\ Settle("resolved")
           ELSE Settle("rejected") /\ UNCHANGED wt
    /\ LedgerFrame /\ UNCHANGED <<index, tree, ledger>>

\* the caller invokes updateStash (line 115)
CallUpdateStash ==
    /\ pc = "idle" /\ calls < MaxLedgerCalls
    /\ LedgerEnter("advance", "u_tree")

\* updateStash: trees = [...trees, await writeTree()] (line 118)
UpdateWriteTree ==
    /\ pc = "u_tree"
    /\ \E ok \in BOOLEAN :
        LET good == ok /\ ~Unmerged(index) IN
        /\ Did("u_tree", ok, good, TRUE)
        /\ IF good
           THEN /\ tree' = index /\ trees' = Extend(trees, tree')
                /\ Settle("resolved")
           ELSE Settle("rejected") /\ UNCHANGED <<tree, trees>>
    /\ LedgerFrame /\ UNCHANGED <<index, wt, workTree, lg>>

\* the caller invokes gitPop, which throws before its first command when the
\* working-tree reference or the ledger is missing (lines 122-125)
CallGitPop ==
    /\ pc = "idle" /\ calls < MaxLedgerCalls
    /\ calls' = calls + 1
    /\ op' = "end" /\ failed' = {} /\ cmds' = 0
    /\ lg' = [lg EXCEPT !.index = index, !.wt = wt, !.trees = trees,
                        !.workTree = workTree, !.read = NoTree]
    /\ IF NeedTrees(workTree, trees)
       THEN pc' = "idle" /\ outcome' = "threw"
       ELSE pc' = "e_read1" /\ outcome' = "running"
    /\ UNCHANGED <<repo, patchFile, patchPath, tree, patch, recovery, cleaned,
                   hooked, sv, pv, faults, trees, workTree, run, cyc>>

\* gitPop: git read-tree workTree (line 127)
PopReadWork ==
    /\ pc = "e_read1"
    /\ \E ok \in BOOLEAN :
        /\ Did("e_read1", ok, ok, TRUE)
        /\ IF ok
           THEN index' = ReadTree(workTree) /\ pc' = "e_checkout1" /\ UNCHANGED outcome
           ELSE Settle("rejected") /\ UNCHANGED index
    /\ LedgerFrame /\ UNCHANGED <<wt, tree, ledger>>

\* gitPop: git checkout-index -af (line 129)
PopCheckoutWork ==
    /\ pc = "e_checkout1"
    /\ \E ok \in BOOLEAN :
        /\ Did("e_checkout1", ok, ok, TRUE)
        /\ IF ok
           THEN wt' = CheckoutIndexAll(index, wt) /\ pc' = "e_read2" /\ UNCHANGED outcome
           ELSE Settle("rejected") /\ UNCHANGED wt
    /\ LedgerFrame /\ UNCHANGED <<index, tree, ledger>>

\* gitPop: git read-tree trees[0] or trees[1] (lines 130-137)
PopReadLedger ==
    /\ pc = "e_read2"
    /\ \E ok \in BOOLEAN :
        /\ Did("e_read2", ok, ok, TRUE)
        /\ IF ok
           THEN /\ index' = ReadTree(LedgerPick(trees))
                /\ lg' = [lg EXCEPT !.read = index']
                /\ pc' = "e_checkout2" /\ UNCHANGED outcome
           ELSE Settle("rejected") /\ UNCHANGED <<index, lg>>
    /\ LedgerFrame /\ UNCHANGED <<wt, tree, trees, workTree>>

\* gitPop: git checkout-index (line 139), after which the function returns
PopCheckoutIndex ==
    /\ pc = "e_checkout2"
    /\ \E ok \in BOOLEAN :
        /\ Did("e_checkout2", ok, ok, TRUE)
        /\ IF ok
           THEN wt' = CheckoutIndexNone(index, wt) /\ Settle("resolved")
           ELSE Settle("rejected") /\ UNCHANGED wt
    /\ LedgerFrame /\ UNCHANGED <<index, tree, ledger>>

\* once in a session, between two ledger operations, the hook rewrites a
\* unit of the working tree and runs `git add` on the file
LedgerEdit ==
    /\ pc = "idle" /\ op \in {"begin", "advance"} /\ ~lg.edited
    /\ \E u \in Units, b \in Blobs :
        /\ b # wt[u]
        /\ wt' = [wt EXCEPT ![u] = b]
        /\ index' = [v \in Units |-> IF FileOf(v) = FileOf(u) THEN wt'[v] ELSE index[v]]
    /\ lg' = [lg EXCEPT !.edited = TRUE]
    /\ UNCHANGED <<subDirty, stash, prog, hist, budget, trees, workTree, run, cyc>>

\* the ledger operations on a repository without stash entries or submodule
InitLedger == Init /\ stash = <<>> /\ subDirty = FALSE

NextLedger ==
    \/ CallGitStash \/ StashWriteTree \/ StashAdd \/ StashWorkTree
    \/ StashReadTree \/ StashCheckoutIndex
    \/ CallUpdateStash \/ UpdateWriteTree
    \/ CallGitPop \/ PopReadWork \/ PopCheckoutWork
    \/ PopReadLedger \/ PopCheckoutIndex
    \/ LedgerEdit

SpecLedger == InitLedger /\ [][NextLedger]_vars

\* ------------------------------------------------------------- subprocesses
\* Above, a git command is one step.  Here it is two events, the subprocess
\* being started by execGit and the subprocess ending, and an operation is
\* the order in which its code starts commands: which command follows which
\* result, and whether the code waits for a command before it goes on.
Ops == {"getUnstagedFiles", "gitStashSave", "gitStashPop", "updateStash",
        "gitStash", "gitPop"}

\* how the entry of an operation (c = "start") or a command can end: "fail"
\* at the start is the throw of gitStashPop (line 182) or gitPop (line 124),
\* "clean" is diff-index --name-only printing nothing
Results(o, c) ==
    IF c = "start"
    THEN IF o \in {"gitStashPop", "gitPop"} THEN {"ok", "fail"} ELSE {"ok"}
    ELSE IF c = "s_names" THEN {"ok", "clean", "fail"} ELSE {"ok", "fail"}

\* the command the code starts after c ended with r, "done" when it starts
\* no further command
After(o, c, r) ==
    CASE o = "getUnstagedFiles" ->
            (CASE c = "start" -> "s_tree1"
               [] c = "s_tree1" /\ r = "ok" -> "s_names"
               [] OTHER -> "done")
      [] o = "gitStashSave" ->
            (CASE c = "start" -> "s_tree1"
               [] c = "s_tree1" /\ r = "ok" -> "s_names"
               [] c = "s_names" /\ r = "ok" -> "s_tree2"
               [] c = "s_tree2" /\ r = "ok" -> "s_diff"
               [] c = "s_tree2" /\ r = "fail" -> "s_stash"
               [] c = "s_diff" -> "s_stash"
               [] OTHER -> "done")
      [] o = "gitStashPop" ->
            (CASE c = "start" /\ r = "ok" -> "p_checkout"
               [] c = "p_checkout" /\ r = "ok" -> "p_apply"
               [] c = "p_checkout" /\ r = "fail" -> "r_stash"
               [] c = "p_apply" /\ r = "ok" -> "c_drop"
               [] c = "p_apply" /\ r = "fail" -> "r_stash"
               [] c = "r_stash" /\ r = "ok" -> "r_pop"
               [] c = "r_pop" /\ r = "ok" -> "r_read"
               [] c = "r_read" /\ r = "ok" -> "c_drop"
               [] OTHER -> "done")
      [] o = "updateStash" ->
            (CASE c = "start" -> "u_tree"
               [] OTHER -> "done")
      [] o = "gitStash" ->
            (CASE c = "start" -> "g_tree1"
               [] c = "g_tree1" /\ r = "ok" -> "g_add"
               [] c = "g_add" /\ r = "ok" -> "g_tree2"
               [] c = "g_tree2" /\ r = "ok" -> "g_read"
               [] c = "g_read" /\ r = "ok" -> "g_checkout"
               [] OTHER -> "done")
      [] OTHER ->
            (CASE c = "start" /\ r = "ok" -> "e_read1"
               [] c = "e_read1" /\ r = "ok" -> "e_checkout1"
               [] c = "e_checkout1" /\ r = "ok" -> "e_read2"
               [] c = "e_read2" /\ r = "ok" -> "e_checkout2"
               [] OTHER -> "done")

\* (mutation of Awaited: `await` missing on line 87)
AsStashNotAwaited(o, c) == c # "r_stash"
\* whether the code waits for command c to end before it goes on: every
\* execGit call is awaited, chained with then, or returned as the result
Awaited(o, c) == TRUE

RunFrame == UNCHANGED <<repo, prog, hist, budget, ledger, cyc>>

\* a caller invokes operation o
RunCall ==
    /\ run.op = "none"
    /\ \E o \in Ops, r \in {"ok", "fail"} :
        /\ r \in Results(o, "start")
        /\ run' = [op |-> o, at |-> "start", res |-> r, fly |-> {}, log |-> <<>>]
    /\ RunFrame

\* the operation starts its next command, or finds that there is none
RunIssue ==
    /\ run.op # "none" /\ run.at # "done"
    /\ run.at \in run.fly => ~Awaited(run.op, run.at)
    /\ LET r == IF run.at \in run.fly THEN "ok" ELSE run.res
           next == After(run.op, run.at, r)
       IN  run' = IF next = "done"
                  THEN [run EXCEPT !.at = "done"]
                  ELSE [run EXCEPT !.at = next, !.res = "none",
                                   !.fly = @ \cup {next}, !.log = Append(@, next)]
    /\ RunFrame

\* a subprocess ends
RunComplete ==
    /\ \E c \in run.fly, r \in {"ok", "clean", "fail"} :
        /\ r \in Results(run.op, c)
        /\ run' = [run EXCEPT !.fly = @ \ {c},
                              !.res = IF c = run.at THEN r ELSE @]
    /\ RunFrame

\* the operation settles
RunReturn ==
    /\ run.op # "none" /\ run.at = "done" /\ run.fly = {}
    /\ run' = NoRun
    /\ RunFrame

InitRun ==
    /\ Init
    /\ index = HEAD /\ wt = HEAD /\ ~subDirty /\ stash = <<>>

NextRun == RunCall \/ RunIssue \/ RunComplete \/ RunReturn

SpecRun == InitRun /\ [][NextRun]_vars

\* ------------------------------------------------------------- two callers
\* Two callers in one process, each calling gitStashSave and later
\* gitStashPop.  A call is made when no operation runs (the callers await
\* their calls); the cycles interleave call by call.  patchPath, the patch
\* file and the repository are the ones above.
\* units with an unstaged edit when gitStashSave was last called
SaveCaptured == {u \in Units : sv.index[u] # sv.wt[u]}
\* cyc with the call that has just settled entered for its caller: the patch
\* a save captured when nothing failed, the patch file a restore was given
Folded ==
    IF cyc.who = "none" THEN cyc
    ELSE [cyc EXCEPT
            !.kept[cyc.who] =
                IF op # "save" THEN @
                ELSE IF outcome = "resolved" /\ failed = {} /\ SaveCaptured # {}
                     THEN DiffPatch(sv.index, sv.wt)
                     ELSE NoFile,
            !.applied[cyc.who] =
                IF op = "pop" /\ outcome # "threw" THEN pv.patchFile ELSE @,
            !.prev = [kind |-> op, by |-> cyc.who, cleaned |-> cleaned]]

\* caller c invokes gitStashSave (line 168); of two behaviours that differ
\* by the names of the callers the one where A saves first is kept
CycleSave(c) ==
    /\ pc = "idle" /\ cyc.st[c] = "new"
    /\ c = "B" => cyc.st["A"] # "new"
    /\ EnterSave
    /\ cyc' = [Folded EXCEPT !.who = c, !.st[c] = "saved"]

\* caller c invokes gitStashPop (line 179) after its gitStashSave has settled
CyclePop(c) ==
    /\ pc = "idle" /\ cyc.st[c] = "saved"
    /\ EnterPop
    /\ cyc' = [Folded EXCEPT !.who = c, !.st[c] = "popped"]

InitTwo == Init /\ stash = <<>> /\ subDirty = FALSE

NextTwo ==
    \/ \E c \in Cycles : CycleSave(c)
    \/ \E c \in Cycles : CyclePop(c)
    \/ SaveWriteTree \/ SaveNameOnly
    \/ GenWriteTree \/ GenDiff \/ GenWriteFile \/ SaveStash
    \/ PopCheckout \/ PopApply
    \/ RecStash \/ RecPop \/ RecReadTree
    \/ CleanDrop \/ CleanUnlink
    \/ HookFix

SpecTwo == InitTwo /\ [][NextTwo]_vars

\* ------------------------------------------------------------- properties
\* the stash list as git shows it (who pushed an entry is not recorded by git)
Contents(st) == [k \in 1..Len(st) |-> [base |-> st[k].base, i |-> st[k].i, w |-> st[k].w]]

Settled == pc = "idle" /\ outcome # "running"
\* diff-index --name-only was non-empty when gitStashSave was last called
SavedUnstaged == NameOnlyDiff(sv.index, sv.wt, sv.sub) # {}
\* nothing in the working tree differed from the index at that call
SavedClean == sv.valid /\ sv.wt = sv.index /\ ~sv.sub
\* the units with an unstaged edit when gitStashSave was last called
PatchedUnits == {u \in Units : sv.index[u] # sv.wt[u]}
\* the units the hook changed between that save and the gitStashPop call
HookUnits == {u \in Units : pv.wt[u] # sv.index[u] \/ pv.index[u] # sv.index[u]}
EnvFailedAt(steps) == \E s \in steps : <<s, "env">> \in failed
FailedAt(steps) == \E s \in steps, c \in {"env", "state"} : <<s, c>> \in failed
PopSteps == {"p_checkout", "p_apply", "r_stash", "r_pop", "r_read", "c_drop", "c_unlink"}
\* gitStashPop was called right after a gitStashSave in which nothing failed
PopAfterCleanSave ==
    /\ op = "pop" /\ sv.valid /\ pv.prevOp = "save"
    /\ pv.prevOutcome = "resolved" /\ pv.prevFailed = {}

\* C1: a save with unstaged changes followed at once by a pop, no hook in
\* between and no command failing, leaves working tree, index and stash list
\* as they were before the save, and no patch file.
RoundTrip ==
    (Settled /\ PopAfterCleanSave /\ ~pv.hooked /\ failed = {} /\ SavedUnstaged)
        => /\ wt = sv.wt
           /\ index = sv.index
           /\ Contents(stash) = Contents(sv.stash)
           /\ patchFile = NoFile

\* C2: when the working tree has no modification relative to the index,
\* gitStashSave changes neither working tree, index, stash list nor patch file,
\* at any of its steps and however it settles.
SaveNoOp ==
    (op = "save" /\ ~hooked /\ SavedClean)
        => /\ wt = sv.wt
           /\ index = sv.index
           /\ stash = sv.stash
           /\ patchFile = sv.patchFile
SaveNoOpWitness ==
    /\ Settled /\ op = "save" /\ outcome = "resolved" /\ ~hooked
    /\ SavedClean /\ sv.index # HEAD /\ sv.stash # <<>>

\* C3: when diff-index --name-only reported unstaged changes, a completed
\* gitStashSave leaves no difference between working tree and index and a
\* remembered patch path.
SaveIsolates ==
    (Settled /\ op = "save" /\ outcome = "resolved" /\ failed = {} /\ ~hooked
     /\ SavedUnstaged)
        => /\ NameOnlyDiff(index, wt, subDirty) = {}
           /\ ~NoPatch(patchPath)


\* gitStashPop is past checkout, apply and conflict recovery: in cleanup or settled
RestoreOver ==
    /\ op = "pop" /\ outcome # "threw"
    /\ pc \in {"c_drop", "c_unlink", "idle"}

\* the hook acted between a save that captured a patch and the pop, touching
\* no unit of the patch, and neither checkout nor apply was failed from outside
HookedApart ==
    /\ RestoreOver /\ PopAfterCleanSave /\ PatchedUnits # {}
    /\ pv.hooked /\ HookUnits # {} /\ HookUnits \cap PatchedUnits = {}
    /\ ~EnvFailedAt({"p_checkout", "p_apply"})
\* the patch applied, and the working tree holds the hook's change and the
\* unstaged edits
AppliedBoth ==
    /\ ~recovery
    /\ \A u \in HookUnits : wt[u] = pv.wt[u]
    /\ \A u \in PatchedUnits : wt[u] = sv.wt[u]
\* the hook ran `git add` on what it changed
HookStaged == \A u \in HookUnits : pv.index[u] = pv.wt[u]

\* C4 as stated: a hook change that overlaps no captured edit survives the
\* restore together with the edits, staged by the hook or not.
HookFixKept == HookedApart => AppliedBoth

\* C4: a hook change that overlaps no captured edit and that the hook added to
\* the index survives the restore together with the unstaged edits, and
\* conflict recovery is not entered.
StagedHookFixKept == (HookedApart /\ HookStaged) => AppliedBoth
StagedHookFixKeptWitness ==
    HookedApart /\ HookStaged /\ Settled /\ outcome = "resolved" /\ AppliedBoth

\* C5: when the hook changed a unit of the captured patch so that apply fails,
\* gitStashPop goes through conflict recovery and cleanup and resolves.
ConflictResolves ==
    (/\ Settled /\ PopAfterCleanSave /\ pv.hooked
     /\ HookUnits \cap PatchedUnits # {}
     /\ <<"p_apply", "state">> \in failed
     /\ ~EnvFailedAt(PopSteps))
        => recovery /\ cleaned /\ outcome = "resolved"

\* C6: once the gitStashPop that follows a save has run restore and settled,
\* no stash entry pushed by save or by conflict recovery is left and the
\* patch file is gone.
NothingLeaks ==
    (Settled /\ PopAfterCleanSave /\ outcome # "threw")
        => /\ \A k \in 1..Len(stash) : stash[k].by = "user"
           /\ patchFile = NoFile

\* cleanup was entered by the pop that settled
CleanupRan == cleaned \/ FailedAt({"c_drop", "c_unlink"})

\* C7: after a restore followed by cleanup the patch file is removed and the
\* patch path cleared, so that the next gitStashPop throws 'No patch found'.
CleanupClears ==
    (Settled /\ PopAfterCleanSave /\ CleanupRan)
        => patchFile = NoFile /\ NoPatch(patchPath)

\* the call before this gitStashPop was a save that captured unstaged changes
\* and in which no command failed
SavedBefore == PopAfterCleanSave /\ SavedUnstaged

\* C8: gitStashPop without such a save throws 'No patch found', runs no git
\* command and leaves working tree, index, stash list and patch file alone.
PopNeedsSave ==
    (op = "pop" /\ ~SavedBefore)
        => /\ outcome = "threw" /\ cmds = 0
           /\ wt = pv.wt /\ index = pv.index /\ stash = pv.stash
           /\ patchFile = pv.patchFile

\* C9: once a git command of gitStashSave has failed, the save is rejected
\* and pushes no stash entry.
SaveSurfacesFailure ==
    (op = "save" /\ FailedAt({"s_tree1", "s_names", "s_tree2", "s_diff", "s_stash"}))
        => pc = "idle" /\ outcome = "rejected" /\ stash = sv.stash

\* C10: conflict recovery is entered only after apply failed, and a failed
\* checkout rejects gitStashPop.
OnlyApplyRecovers ==
    (op = "pop")
        => /\ recovery => FailedAt({"p_apply"})
           /\ FailedAt({"p_checkout"}) => pc = "idle" /\ outcome = "rejected"

\* the gitStashSave in progress or just settled has rewritten the working tree
SaveReduced == op = "save" /\ ~hooked /\ wt # sv.wt

\* C13: in every state where gitStashSave has reduced the working tree to the
\* staged content, the patch file exists and the patch path is remembered.
PatchBeforeStash ==
    SaveReduced => patchFile # NoFile /\ patchPath = "path"
PatchBeforeStashWitness ==
    /\ SaveReduced /\ Settled /\ outcome = "resolved" /\ failed = {}
    /\ wt = sv.index /\ patchFile.kind = "diff" /\ HunkUnits(patchFile) = PatchedUnits

\* C14: in conflict recovery `stash pop stash@{1}` pops an entry pushed by
\* gitStashSave, `read-tree -m -i stash` reads the entry pushed by the
\* `git stash` of the recovery, and cleanup then drops that entry.
RecoveryTargets ==
    [][ /\ (pc = "r_pop" /\ pc' = "r_read") => stash[2].by = "save"
        /\ (pc = "r_read" /\ pc' = "c_drop") => stash[1].by = "fix"
        /\ (recovery /\ pc = "c_drop" /\ pc' = "c_unlink") => stash[1].by = "fix"
      ]_vars

\* the entries of a stash list that the user pushed, in order
UserEntries(st) == SelectSeq(st, LAMBDA e : e.by = "user")

\* C19: no step of gitStashSave or gitStashPop removes or reorders a stash
\* entry that was there before the engine was called.
UserStashKept == [][UserEntries(stash') = UserEntries(stash)]_vars

\* a stash entry pushed by gitStashSave is in the list
SaveEntryOutstanding == \E k \in 1..Len(stash) : stash[k].by = "save"

\* C20: while no engine operation runs, the patch path is remembered exactly
\* when an entry pushed by gitStashSave is outstanding and the patch file exists.
PatchPathTracksStash ==
    (pc = "idle")
        => ((patchPath = "path") <=> (SaveEntryOutstanding /\ patchFile # NoFile))

\* C12: gitPop called without a working-tree reference or with an empty
\* ledger throws before any git command and leaves index, working tree,
\* ledger and reference as they were; called with both it does not throw.
LedgerGuard ==
    (op = "end")
        => IF lg.workTree = NoTree \/ lg.trees = <<>>
           THEN /\ pc = "idle" /\ outcome = "threw" /\ cmds = 0
                /\ index = lg.index /\ wt = lg.wt
                /\ trees = lg.trees /\ workTree = lg.workTree
           ELSE outcome # "threw"
LedgerGuardWitness ==
    /\ op = "end" /\ outcome = "threw"
    /\ lg.workTree = NoTree /\ Len(lg.trees) >= 2

\* gitPop has read a ledger tree into the index
PopHasRead == op = "end" /\ lg.read # NoTree

\* C15 as stated: the tree gitPop reads into the index is the last or the
\* second-to-last element of the ledger.
PopReadsRecent ==
    PopHasRead
        => lg.read \in {trees[k] : k \in {Len(trees), Len(trees) - 1} \cap 1..Len(trees)}

\* C15: the tree gitPop reads into the index is the first element of a
\* ledger of length 1 and the second element of any longer ledger.
PopReadsSecond ==
    PopHasRead
        => /\ lg.read = (IF Len(trees) = 1 THEN trees[1] ELSE trees[2])
           /\ (pc = "e_checkout2" \/ Settled) => index = lg.read
PopReadsSecondWitness ==
    /\ PopHasRead /\ Settled /\ outcome = "resolved"
    /\ Len(trees) >= 4 /\ index = trees[2]
    /\ index # trees[Len(trees)] /\ index # trees[Len(trees) - 1]

\* C16: a resolved updateStash leaves the ledger it found with one tree, the
\* index, appended; no operation but gitStash removes or replaces an element;
\* a resolved gitStash leaves the one tree of the index it found; and once a
\* gitStash has set the ledger its first element is that tree.
LedgerAppendOnly ==
    /\ (op = "advance" /\ outcome = "resolved") => trees = Append(lg.trees, lg.index)
    /\ (op \in {"advance", "end"})
        => /\ Len(trees) >= Len(lg.trees)
           /\ SubSeq(trees, 1, Len(lg.trees)) = lg.trees
    /\ (op = "begin" /\ outcome = "resolved") => trees = <<lg.index>>
    /\ lg.begun => trees # <<>> /\ trees[1] = lg.t0
LedgerAppendOnlyWitness ==
    /\ lg.begun /\ op = "advance" /\ outcome = "resolved"
    /\ Len(trees) >= 3 /\ trees[1] = lg.t0
    /\ trees[3] # trees[1] /\ trees[2] # trees[3]

\* C17: when gitStash has resolved, the ledger is the one tree of the index
\* at entry, the working-tree reference is the tree of the working content at
\* entry, the index is what it was and the working tree equals it.
StashCaptures ==
    (op = "begin" /\ Settled /\ outcome = "resolved" /\ ~lg.edited)
        => /\ trees = <<lg.index>>
           /\ workTree = lg.wt
           /\ index = lg.index
           /\ wt = lg.index
StashCapturesWitness ==
    /\ op = "begin" /\ Settled /\ outcome = "resolved" /\ ~lg.edited
    /\ lg.index # HEAD /\ lg.wt # lg.index /\ wt = lg.index
    /\ lg.trees # <<>> /\ lg.trees # trees

\* C11: of the git commands an operation has started, at most one has not
\* ended yet.
OneAtATime == Cardinality(run.fly) <= 1
OneAtATimeWitness ==
    /\ run.op = "gitStashPop" /\ run.fly = {"r_pop"}
    /\ run.log = <<"p_checkout", "p_apply", "r_stash", "r_pop">>

\* the running or settled gitStashPop of a caller follows a call of the other
\* caller
PopAfterOther(kind) ==
    /\ op = "pop" /\ cyc.who # "none"
    /\ cyc.prev.kind = kind /\ cyc.prev.by # cyc.who

\* C18: patchPath and the patch file are shared by the callers: a
\* gitStashPop that follows the other caller's capturing gitStashSave is
\* given that caller's patch, and one that follows the other caller's
\* completed cleanup throws 'No patch found'.
SharedPatchPath ==
    /\ (PopAfterOther("save") /\ cyc.kept[cyc.prev.by] # NoFile)
        => /\ outcome # "threw"
           /\ pv.patchFile = cyc.kept[cyc.prev.by]
    /\ (PopAfterOther("pop") /\ cyc.prev.cleaned)
        => outcome = "threw" /\ cmds = 0
SharedPatchPathWitness ==
    /\ PopAfterOther("pop") /\ cyc.who = "B" /\ outcome = "threw"
    /\ cyc.kept["A"] # NoFile /\ cyc.kept["B"] # NoFile
    /\ cyc.kept["A"] # cyc.kept["B"]
    /\ cyc.applied["A"] = cyc.kept["B"]

====
